---- MODULE Spec2Model ----
(***************************************************************************)
(* State machine of the AutoComplete controller                            *)
(* (static/app/components/autoComplete.tsx).                               *)
(*                                                                         *)
(* One action per event handler, timer callback and lifecycle hook.  Every *)
(* handler runs to completion (the host is single threaded); the setState  *)
(* calls a handler makes are applied in the order they are made, and the   *)
(* re-render that follows them (componentWillUpdate clears the registry,   *)
(* render lets the child register its items again) is part of the action.  *)
(*                                                                         *)
(* Timers.  window.setTimeout callbacks run in the order of their expiry   *)
(* times, ties in the order of creation.  timerQueue holds the expired     *)
(* timers in that order.  A zero-delay timer expires when it is created;   *)
(* the 200 ms blur timer is "waiting" until BlurDelayElapses moves it to   *)
(* the back of the queue.  Events may be delivered while expired timers    *)
(* still wait for their turn.                                              *)
(***************************************************************************)
EXTENDS Integers, Sequences, FiniteSets, TLC

VARIABLES
    props,               \* this.props (fixed for the life of the instance)
    state,               \* this.state
    items,               \* this.items: registry index -> item, as registered by the last render
    itemCount,           \* this.itemCount
    blurTimeout,         \* "none" | "waiting" | "due": the timer behind this.blurTimeout
    cancelCloseTimeout,  \* "none" | "due": the timer behind this.cancelCloseTimeout
    timerQueue,          \* expired timers, in the order their callbacks will run
    mounted,             \* FALSE after componentWillUnmount
    ev,                  \* the event handled by the last step
    calls,               \* what the last step called, in order (callbacks of the caller and own methods)
    blurCovered,         \* a menu mousedown followed the last blur, the latest of them while the
                         \* blur's timer was still waiting
    blurRace,            \* how the last blur and a menu mousedown met: "mousedownThenBlur", the
                         \* blur came while a mousedown's timer was pending; "blurThenMousedown",
                         \* the latest mousedown came while the blur's timer was waiting;
                         \* "blurThenMousedownLate", it came when that timer had expired but not
                         \* yet run; "none" otherwise
    blurInSettle         \* the last blur came during the settle delay of an outside click

vars == <<props, state, items, itemCount, blurTimeout, cancelCloseTimeout,
          timerQueue, mounted, ev, calls, blurCovered, blurRace, blurInSettle>>

---------------------------------------------------------------------------
\* Bounds

\* length of the list the rendering callback draws its items from
MaxItems == 3
\* outside-click notifications whose settle delay may be pending at once
MaxSettle == 1

---------------------------------------------------------------------------
\* Values

\* JavaScript's undefined, for the optional numbers (defaultHighlightedIndex, itemCount)
Undefined == -1

\* an item of the caller: opaque but for its optional disabled field
ItemOf(id) == [id |-> id, disabled |-> (id % 2 = 0)]

\* selectedItem: undefined
NoItem == [id |-> 0, disabled |-> FALSE]

\* the texts a change event may carry ("" and "t"), as sequences of characters
Texts == {<<>>, <<"t">>}

\* props.itemToString as supplied by the caller: the item's label
itemToString(item) == <<"#", item.id>>

Keys == {"Enter", "Tab", "ArrowUp", "ArrowDown", "Escape", "a"}

Max(a, b) == IF a >= b THEN a ELSE b
Min(a, b) == IF a <= b THEN a ELSE b

---------------------------------------------------------------------------
\* Registry

\* getItemProps: register item at index, or at the next free slot when index is omitted
getItemProps(reg, item, index) ==
    LET newIndex == IF index = Undefined THEN Cardinality(DOMAIN reg) ELSE index
    IN  [i \in (DOMAIN reg) \cup {newIndex} |-> IF i = newIndex THEN item ELSE reg[i]]

EmptyRegistry == [i \in {} |-> NoItem]

\* the child registers the first n items of its list without an index
RECURSIVE RegisterList(_)
RegisterList(n) ==
    IF n = 0 THEN EmptyRegistry
    ELSE getItemProps(RegisterList(n - 1), ItemOf(n), Undefined)

\* a virtualized child registers only the rows from..MaxItems-1, each with its index
RECURSIVE RegisterWindow(_, _)
RegisterWindow(from, to) ==
    IF from >= to THEN EmptyRegistry
    ELSE getItemProps(RegisterWindow(from, to - 1), ItemOf(to), to - 1)

\* what one render pass leaves behind, the registry and getMenuProps' itemCount:
\* nothing to draw, the whole list, a virtualized list (itemCount given, the
\* first row not drawn), and an empty virtualized list
Renders ==
    {[items |-> RegisterList(n), itemCount |-> Undefined] : n \in {0, MaxItems}}
    \cup {[items |-> RegisterWindow(1, MaxItems), itemCount |-> MaxItems],
          [items |-> EmptyRegistry, itemCount |-> 0]}

---------------------------------------------------------------------------
\* Configuration

PropsSet ==
    [isOpen : {"undefined", "true", "false"},
     disabled : BOOLEAN,
     closeOnSelect : BOOLEAN,
     shouldSelectWithEnter : BOOLEAN,
     shouldSelectWithTab : BOOLEAN,
     resetInputOnClose : BOOLEAN,
     defaultHighlightedIndex : {Undefined, 1}]

defaultProps ==
    [isOpen |-> "undefined", disabled |-> FALSE, closeOnSelect |-> TRUE,
     shouldSelectWithEnter |-> TRUE, shouldSelectWithTab |-> FALSE,
     resetInputOnClose |-> FALSE, defaultHighlightedIndex |-> Undefined]

getInitialState(p) ==
    [isOpen |-> (p.isOpen = "true"),
     highlightedIndex |-> IF p.defaultHighlightedIndex = Undefined THEN 0 ELSE p.defaultHighlightedIndex,
     inputValue |-> <<>>,
     selectedItem |-> NoItem]

isControlled == props.isOpen # "undefined"

isOpen == IF isControlled THEN props.isOpen = "true" ELSE state.isOpen

---------------------------------------------------------------------------
\* Methods.  r = [st, calls]: the state with the updates queued so far applied,
\* and the calls made so far.  this.state, read inside a handler, is the
\* variable state: the state as last committed.

Call(r, fn, arg) == [r EXCEPT !.calls = Append(@, [fn |-> fn, arg |-> arg])]

Called(fn) == \E i \in DOMAIN calls : calls[i].fn = fn

CalledIn(cs, fn) == \E i \in DOMAIN cs : cs[i].fn = fn

\* this.setState: ignored once the instance is unmounted
setState(r, st) == IF mounted THEN [r EXCEPT !.st = st] ELSE r

resetHighlightState(r) ==
    LET r1 == Call(r, "resetHighlightState", 0)
        d  == IF props.defaultHighlightedIndex = Undefined THEN 0 ELSE props.defaultHighlightedIndex
    IN  setState(r1, [r1.st EXCEPT !.highlightedIndex = d])

\* mutant: the early return tests the wrong sense of isControlled
openMenu_ReturnsWhenUncontrolled(r) ==
    LET r1 == Call(Call(r, "openMenu", 0), "onOpen", 0)
    IN  IF props.disabled \/ ~isControlled
        THEN r1
        ELSE LET r2 == resetHighlightState(r1)
             IN  setState(r2, [r2.st EXCEPT !.isOpen = TRUE])

openMenu(r) ==
    LET r1 == Call(Call(r, "openMenu", 0), "onOpen", 0)
    IN  IF props.disabled \/ isControlled
        THEN r1
        ELSE LET r2 == resetHighlightState(r1)
             IN  setState(r2, [r2.st EXCEPT !.isOpen = TRUE])

\* mutant: closeMenu clears the input whether or not resetInputOnClose is set
closeMenu_AlwaysClearsInput(r) ==
    LET r1 == Call(Call(r, "closeMenu", 0), "onClose", 0)
    IN  IF isControlled
        THEN r1
        ELSE setState(r1, [r1.st EXCEPT !.isOpen = FALSE, !.inputValue = <<>>])

\* mutant: closeMenu without the early return of controlled mode
closeMenu_IgnoresControlled(r) ==
    LET r1 == Call(Call(r, "closeMenu", 0), "onClose", 0)
    IN  setState(r1, [r1.st EXCEPT !.isOpen = FALSE,
                                   !.inputValue = IF props.resetInputOnClose THEN <<>> ELSE @])

\* mutant: closeMenu only resets the input
closeMenu_LeavesOpen(r) ==
    LET r1 == Call(Call(r, "closeMenu", 0), "onClose", 0)
    IN  IF isControlled
        THEN r1
        ELSE setState(r1, [r1.st EXCEPT !.inputValue = IF props.resetInputOnClose THEN <<>> ELSE @])

closeMenu(r) ==
    LET r1 == Call(Call(r, "closeMenu", 0), "onClose", 0)
    IN  IF isControlled
        THEN r1
        ELSE setState(r1, [r1.st EXCEPT !.isOpen = FALSE,
                                        !.inputValue = IF props.resetInputOnClose THEN <<>> ELSE @])

\* mutant: closeMenu is called after the selection is stored
handleSelect_ClosesLast(r, item) ==
    LET r1 == Call(Call(r, "handleSelect", item.id), "onSelect", item.id)
    IN  IF props.closeOnSelect
        THEN LET r2 == setState(r1, [r1.st EXCEPT !.inputValue = itemToString(item),
                                                  !.selectedItem = item])
             IN  closeMenu(r2)
        ELSE setState(r1, [r1.st EXCEPT !.selectedItem = item])

handleSelect(r, item) ==
    LET r1 == Call(Call(r, "handleSelect", item.id), "onSelect", item.id)
    IN  IF props.closeOnSelect
        THEN LET r2 == closeMenu(r1)
             IN  setState(r2, [r2.st EXCEPT !.inputValue = itemToString(item),
                                            !.selectedItem = item])
        ELSE setState(r1, [r1.st EXCEPT !.selectedItem = item])

\* mutant: the new index is not capped at the list size
moveHighlightedIndex_NoUpperBound(r, step) ==
    LET newIndex == state.highlightedIndex + step
    IN  setState(r, [r.st EXCEPT !.highlightedIndex = Max(0, newIndex)])

moveHighlightedIndex(r, step) ==
    LET newIndex == state.highlightedIndex + step
        listSize == IF itemCount # Undefined THEN itemCount ELSE Cardinality(DOMAIN items)
        clamped  == Max(0, Min(newIndex, listSize - 1))
    IN  setState(r, [r.st EXCEPT !.highlightedIndex = clamped])

\* mutant: the hook resets the highlight unconditionally
UNSAFE_componentWillReceiveProps_AlwaysResets(r, nextProps, nextState) ==
    resetHighlightState(r)

\* The hook as written: its second parameter is read as nextState.
UNSAFE_componentWillReceiveProps(r, nextProps, nextState) ==
    IF ~nextProps.closeOnSelect /\ state.selectedItem # nextState.selectedItem
    THEN r
    ELSE resetHighlightState(r)

\* React calls the hook when the parent re-renders, with (nextProps, nextContext).
\* The class declares no contextTypes, so the second argument is the empty
\* context object and its selectedItem reads as undefined.  this.state is still
\* the state committed before the update; the hook's setState is applied after
\* the updates already queued.
ReceiveProps(r) == UNSAFE_componentWillReceiveProps(r, props, [selectedItem |-> NoItem])

---------------------------------------------------------------------------
\* Steps

\* type: the step; key: the key pressed (a keydown) or what the step did to the
\* blur timer; index, item: the highlighted or targeted registry slot and the id
\* of its item (0: none); rr: the parent re-rendered in the same update;
\* value: the text of a change event
Event(type, key, index, item, rr) ==
    [type |-> type, key |-> key, index |-> index, item |-> item, rr |-> rr, value |-> <<>>]

\* a handler starts from the committed state, with nothing called yet
Start == [st |-> state, calls |-> <<>>]

\* window.clearTimeout on the timer of the given kind
clearTimeout(queue, kind) == SelectSeq(queue, LAMBDA t : t # kind)

\* items.clear(), called before every re-render
UNSAFE_componentWillUpdate == EmptyRegistry

\* getMenuProps records the item count the child passes, if any
getMenuProps(count) == count

\* the render pass that follows an update: the registry is cleared and the
\* child registers again what it draws
render(drawn) ==
    /\ items' = [i \in DOMAIN drawn.items |-> drawn.items[i]] @@ UNSAFE_componentWillUpdate
    /\ itemCount' = getMenuProps(drawn.itemCount)

\* what the child drew in the last pass; it draws the same until its parent re-renders
Drawn == [items |-> items, itemCount |-> itemCount]

\* commit the handler's updates, re-render, and record the step
Update(r, e) ==
    /\ state' = r.st
    /\ calls' = r.calls
    /\ ev' = e
    /\ render(Drawn)

\* What is remembered about the last blur is about its timer: it is kept while
\* that timer is pending and through the step that ends it, and forgotten by
\* the step after.
BlurNotesCarried ==
    /\ blurCovered' = (blurCovered /\ blurTimeout # "none")
    /\ blurRace' = IF blurTimeout # "none" THEN blurRace ELSE "none"
    /\ blurInSettle' = (blurInSettle /\ blurTimeout # "none")

TimersUnchanged ==
    /\ UNCHANGED <<blurTimeout, cancelCloseTimeout, timerQueue>>
    /\ BlurNotesCarried

HandleInputChange(value) ==
    /\ mounted
    /\ LET r1 == openMenu(Start)
           r2 == setState(r1, [r1.st EXCEPT !.inputValue = value])
       IN  Update(Call(r2, "onChange", 0),
                  [Event("change", "", Undefined, 0, FALSE) EXCEPT !.value = value])
    /\ TimersUnchanged
    /\ UNCHANGED <<props, mounted>>

HandleInputFocus ==
    /\ mounted
    /\ Update(Call(openMenu(Start), "onFocus", 0), Event("focus", "", Undefined, 0, FALSE))
    /\ TimersUnchanged
    /\ UNCHANGED <<props, mounted>>

\* outside-click notifications whose settle delay is pending
SettlePending == Len(SelectSeq(timerQueue, LAMBDA t : t = "settle"))

\* the blur handler only re-arms the 200 ms timer
HandleInputBlur ==
    /\ mounted
    /\ blurTimeout' = "waiting"
    /\ timerQueue' = clearTimeout(timerQueue, "blur")
    /\ blurCovered' = FALSE
    /\ blurRace' = IF cancelCloseTimeout = "due" THEN "mousedownThenBlur"
                   ELSE "none"
    /\ blurInSettle' = (SettlePending > 0)
    /\ ev' = Event("blur", "", Undefined, 0, FALSE)
    /\ calls' = <<>>
    /\ UNCHANGED <<props, state, items, itemCount, cancelCloseTimeout, mounted>>

\* 200 ms have passed since the blur: its timer joins the expired ones
BlurDelayElapses ==
    /\ blurTimeout = "waiting"
    /\ blurTimeout' = "due"
    /\ timerQueue' = Append(timerQueue, "blur")
    /\ ev' = Event("time", "", Undefined, 0, FALSE)
    /\ calls' = <<>>
    /\ UNCHANGED <<props, state, items, itemCount, cancelCloseTimeout, mounted>>
    /\ BlurNotesCarried

\* the callback of the blur timer
BlurTimeoutFires ==
    /\ timerQueue # <<>> /\ Head(timerQueue) = "blur"
    /\ timerQueue' = Tail(timerQueue)
    /\ blurTimeout' = "none"
    /\ Update(Call(closeMenu(Start), "onBlur", 0), Event("blurTimeout", "", Undefined, 0, FALSE))
    /\ UNCHANGED <<props, cancelCloseTimeout, mounted>>
    /\ BlurNotesCarried

\* mutant: the mousedown's timer clears its own handle instead of the blur timer
CancelCloseTimeoutFires_WrongHandle ==
    /\ timerQueue # <<>> /\ Head(timerQueue) = "cancel"
    /\ timerQueue' = Tail(timerQueue)
    /\ cancelCloseTimeout' = "none"
    /\ ev' = Event("cancelCloseTimeout", "", Undefined, 0, FALSE)
    /\ calls' = <<>>
    /\ UNCHANGED <<props, state, items, itemCount, mounted, blurTimeout>>
    /\ BlurNotesCarried

\* the callback of the timer armed by a menu mousedown
CancelCloseTimeoutFires ==
    /\ timerQueue # <<>> /\ Head(timerQueue) = "cancel"
    /\ timerQueue' = clearTimeout(Tail(timerQueue), "blur")
    /\ cancelCloseTimeout' = "none"
    /\ blurTimeout' = "none"
    /\ ev' = Event("cancelCloseTimeout", IF blurTimeout # "none" THEN "clearedBlur" ELSE "",
                   Undefined, 0, FALSE)
    /\ calls' = <<>>
    /\ UNCHANGED <<props, state, items, itemCount, mounted>>
    /\ BlurNotesCarried

\* mutant: the notification does not clear the blur timer
HandleClickOutside_KeepsBlurTimer ==
    /\ mounted
    /\ SettlePending < MaxSettle
    /\ timerQueue' = Append(timerQueue, "settle")
    /\ ev' = Event("clickOutside", "", Undefined, 0, FALSE)
    /\ calls' = <<>>
    /\ UNCHANGED <<props, state, items, itemCount, blurTimeout, cancelCloseTimeout, mounted>>
    /\ BlurNotesCarried

\* handleClickOutside up to its await
HandleClickOutside ==
    /\ mounted
    /\ SettlePending < MaxSettle
    /\ timerQueue' = Append(clearTimeout(timerQueue, "blur"), "settle")
    /\ blurTimeout' = "none"
    /\ ev' = Event("clickOutside", IF blurTimeout # "none" THEN "clearedBlur" ELSE "",
                   Undefined, 0, FALSE)
    /\ calls' = <<>>
    /\ UNCHANGED <<props, state, items, itemCount, cancelCloseTimeout, mounted>>
    /\ BlurNotesCarried

\* handleClickOutside after its await; nothing cancels it
ClickOutsideResumes ==
    /\ timerQueue # <<>> /\ Head(timerQueue) = "settle"
    /\ timerQueue' = Tail(timerQueue)
    /\ Update(closeMenu(Start), Event("clickOutsideResumed", "", Undefined, 0, FALSE))
    /\ UNCHANGED <<props, blurTimeout, cancelCloseTimeout, mounted>>
    /\ BlurNotesCarried

\* mutant: Tab selects whether or not shouldSelectWithTab is set
HandleInputKeydown_TabAlwaysSelects(key, rr) ==
    /\ mounted
    /\ LET hasHighlightedItem == state.highlightedIndex \in DOMAIN items
           isEnter == props.shouldSelectWithEnter /\ key = "Enter"
           isTab   == key = "Tab"
           r1 == IF hasHighlightedItem /\ (isEnter \/ isTab)
                 THEN LET item == items[state.highlightedIndex]
                      IN  Call(IF ~item.disabled THEN handleSelect(Start, item) ELSE Start,
                               "preventDefault", 0)
                 ELSE Start
           r2 == IF key = "ArrowUp"
                 THEN Call(moveHighlightedIndex(r1, -1), "preventDefault", 0)
                 ELSE r1
           r3 == IF key = "ArrowDown"
                 THEN Call(moveHighlightedIndex(r2, 1), "preventDefault", 0)
                 ELSE r2
           r4 == IF key = "Escape" THEN closeMenu(r3) ELSE r3
           r5 == Call(r4, "onKeyDown", 0)
       IN  /\ rr => CalledIn(r5.calls, "handleSelect")
           /\ Update(IF rr THEN ReceiveProps(r5) ELSE r5,
                     Event("keydown", key, state.highlightedIndex,
                           IF hasHighlightedItem THEN items[state.highlightedIndex].id ELSE 0, rr))
    /\ TimersUnchanged
    /\ UNCHANGED <<props, mounted>>

\* mutant: preventDefault only when the key selects
HandleInputKeydown_PreventsOnSelectOnly(key, rr) ==
    /\ mounted
    /\ LET hasHighlightedItem == state.highlightedIndex \in DOMAIN items
           isEnter == props.shouldSelectWithEnter /\ key = "Enter"
           isTab   == props.shouldSelectWithTab /\ key = "Tab"
           r1 == IF hasHighlightedItem /\ (isEnter \/ isTab)
                 THEN LET item == items[state.highlightedIndex]
                      IN  IF ~item.disabled
                          THEN Call(handleSelect(Start, item), "preventDefault", 0)
                          ELSE Start
                 ELSE Start
           r2 == IF key = "ArrowUp"
                 THEN Call(moveHighlightedIndex(r1, -1), "preventDefault", 0)
                 ELSE r1
           r3 == IF key = "ArrowDown"
                 THEN Call(moveHighlightedIndex(r2, 1), "preventDefault", 0)
                 ELSE r2
           r4 == IF key = "Escape" THEN closeMenu(r3) ELSE r3
           r5 == Call(r4, "onKeyDown", 0)
       IN  /\ rr => CalledIn(r5.calls, "handleSelect")
           /\ Update(IF rr THEN ReceiveProps(r5) ELSE r5,
                     Event("keydown", key, state.highlightedIndex,
                           IF hasHighlightedItem THEN items[state.highlightedIndex].id ELSE 0, rr))
    /\ TimersUnchanged
    /\ UNCHANGED <<props, mounted>>

\* rr: the caller's onSelect re-renders the parent in the same update, so that
\* React runs UNSAFE_componentWillReceiveProps before it commits the selection
\* (a re-render of the parent at any other time is the step ParentRender)
HandleInputKeydown(key, rr) ==
    /\ mounted
    /\ LET hasHighlightedItem == state.highlightedIndex \in DOMAIN items
           isEnter == props.shouldSelectWithEnter /\ key = "Enter"
           isTab   == props.shouldSelectWithTab /\ key = "Tab"
           selects == hasHighlightedItem /\ (isEnter \/ isTab)
                      /\ ~items[state.highlightedIndex].disabled
           r1 == IF hasHighlightedItem /\ (isEnter \/ isTab)
                 THEN LET item == items[state.highlightedIndex]
                      IN  Call(IF ~item.disabled THEN handleSelect(Start, item) ELSE Start,
                               "preventDefault", 0)
                 ELSE Start
           r2 == IF key = "ArrowUp"
                 THEN Call(moveHighlightedIndex(r1, -1), "preventDefault", 0)
                 ELSE r1
           r3 == IF key = "ArrowDown"
                 THEN Call(moveHighlightedIndex(r2, 1), "preventDefault", 0)
                 ELSE r2
           r4 == IF key = "Escape" THEN closeMenu(r3) ELSE r3
           r5 == Call(r4, "onKeyDown", 0)
       IN  /\ rr => selects
           /\ Update(IF rr THEN ReceiveProps(r5) ELSE r5,
                     Event("keydown", key, state.highlightedIndex,
                           IF hasHighlightedItem THEN items[state.highlightedIndex].id ELSE 0, rr))
    /\ TimersUnchanged
    /\ UNCHANGED <<props, mounted>>

\* mutant: the click leaves the blur timer armed
HandleItemClick_KeepsBlurTimer(index, rr) ==
    /\ mounted
    /\ index \in DOMAIN items
    /\ LET item == items[index]
       IN  IF item.disabled
           THEN /\ ~rr
                /\ ev' = Event("click", "", index, item.id, FALSE)
                /\ calls' = <<>>
                /\ UNCHANGED <<state, items, itemCount, blurTimeout, timerQueue>>
           ELSE /\ UNCHANGED <<blurTimeout, timerQueue>>
                /\ LET r1 == setState(Start, [state EXCEPT !.highlightedIndex = index])
                       r2 == handleSelect(r1, item)
                   IN  Update(IF rr THEN ReceiveProps(r2) ELSE r2,
                              Event("click", IF blurTimeout # "none" THEN "clearedBlur" ELSE "",
                                    index, item.id, rr))
    /\ UNCHANGED <<props, cancelCloseTimeout, mounted>>
    /\ BlurNotesCarried

\* mutant: the click handler without its test for a disabled item
HandleItemClick_SelectsDisabled(index, rr) ==
    /\ mounted
    /\ index \in DOMAIN items
    /\ LET item == items[index]
       IN  /\ timerQueue' = clearTimeout(timerQueue, "blur")
           /\ blurTimeout' = "none"
           /\ LET r1 == setState(Start, [state EXCEPT !.highlightedIndex = index])
                  r2 == handleSelect(r1, item)
              IN  Update(IF rr THEN ReceiveProps(r2) ELSE r2,
                         Event("click", IF blurTimeout # "none" THEN "clearedBlur" ELSE "",
                               index, item.id, rr))
    /\ UNCHANGED <<props, cancelCloseTimeout, mounted>>
    /\ BlurNotesCarried

HandleItemClick(index, rr) ==
    /\ mounted
    /\ index \in DOMAIN items
    /\ LET item == items[index]
       IN  IF item.disabled
           THEN /\ ~rr
                /\ ev' = Event("click", "", index, item.id, FALSE)
                /\ calls' = <<>>
                /\ UNCHANGED <<state, items, itemCount, blurTimeout, timerQueue>>
           ELSE /\ timerQueue' = clearTimeout(timerQueue, "blur")
                /\ blurTimeout' = "none"
                /\ LET r1 == setState(Start, [state EXCEPT !.highlightedIndex = index])
                       r2 == handleSelect(r1, item)
                   IN  Update(IF rr THEN ReceiveProps(r2) ELSE r2,
                              Event("click", IF blurTimeout # "none" THEN "clearedBlur" ELSE "",
                                    index, item.id, rr))
    /\ UNCHANGED <<props, cancelCloseTimeout, mounted>>
    /\ BlurNotesCarried

\* mutant: mouseenter highlights disabled items too
HandleMouseEnter_IgnoresDisabled(index) ==
    /\ mounted
    /\ index \in DOMAIN items
    /\ Update(setState(Start, [state EXCEPT !.highlightedIndex = index]),
              Event("mouseenter", "", index, items[index].id, FALSE))
    /\ TimersUnchanged
    /\ UNCHANGED <<props, mounted>>

HandleMouseEnter(index) ==
    /\ mounted
    /\ index \in DOMAIN items
    /\ LET item == items[index]
       IN  IF item.disabled
           THEN /\ ev' = Event("mouseenter", "", index, item.id, FALSE)
                /\ calls' = <<>>
                /\ UNCHANGED <<state, items, itemCount>>
           ELSE Update(setState(Start, [state EXCEPT !.highlightedIndex = index]),
                       Event("mouseenter", "", index, item.id, FALSE))
    /\ TimersUnchanged
    /\ UNCHANGED <<props, mounted>>

\* mutant: the mousedown handler arms no timer
HandleMenuMouseDown_NoTimer ==
    /\ mounted
    /\ timerQueue' = clearTimeout(timerQueue, "cancel")
    /\ cancelCloseTimeout' = "none"
    /\ blurCovered' = (blurTimeout = "waiting")
    /\ blurRace' = IF blurTimeout = "waiting" THEN "blurThenMousedown"
                   ELSE IF blurTimeout = "due" THEN "blurThenMousedownLate"
                   ELSE "none"
    /\ blurInSettle' = (blurInSettle /\ blurTimeout # "none")
    /\ ev' = Event("menuMouseDown", "", Undefined, 0, FALSE)
    /\ calls' = <<>>
    /\ UNCHANGED <<props, state, items, itemCount, blurTimeout, mounted>>

\* the zero-delay timer's callback will clear the blur timer
HandleMenuMouseDown ==
    /\ mounted
    /\ timerQueue' = Append(clearTimeout(timerQueue, "cancel"), "cancel")
    /\ cancelCloseTimeout' = "due"
    /\ blurCovered' = (blurTimeout = "waiting")
    /\ blurRace' = IF blurTimeout = "waiting" THEN "blurThenMousedown"
                   ELSE IF blurTimeout = "due" THEN "blurThenMousedownLate"
                   ELSE "none"
    /\ blurInSettle' = (blurInSettle /\ blurTimeout # "none")
    /\ ev' = Event("menuMouseDown", "", Undefined, 0, FALSE)
    /\ calls' = <<>>
    /\ UNCHANGED <<props, state, items, itemCount, blurTimeout, mounted>>

\* actions.open / actions.close, handed to the rendering callback
ActionsOpen ==
    /\ mounted
    /\ Update(openMenu(Start), Event("actions.open", "", Undefined, 0, FALSE))
    /\ TimersUnchanged
    /\ UNCHANGED <<props, mounted>>

ActionsClose ==
    /\ mounted
    /\ Update(closeMenu(Start), Event("actions.close", "", Undefined, 0, FALSE))
    /\ TimersUnchanged
    /\ UNCHANGED <<props, mounted>>

\* the parent re-renders: the hook runs, then the child draws (possibly other) items
ParentRender(drawn) ==
    /\ mounted
    /\ LET r == ReceiveProps(Start)
       IN  /\ state' = r.st
           /\ calls' = r.calls
    /\ ev' = Event("parentRender", "", Undefined, 0, TRUE)
    /\ render(drawn)
    /\ TimersUnchanged
    /\ UNCHANGED <<props, mounted>>

componentWillUnmount ==
    /\ mounted
    /\ mounted' = FALSE
    /\ timerQueue' = clearTimeout(clearTimeout(timerQueue, "blur"), "cancel")
    /\ blurTimeout' = "none"
    /\ cancelCloseTimeout' = "none"
    /\ ev' = Event("unmount", "", Undefined, 0, FALSE)
    /\ calls' = <<>>
    /\ UNCHANGED <<props, state, items, itemCount>>
    /\ BlurNotesCarried

Indexes == 0..(MaxItems - 1)

Next ==
    \/ \E value \in Texts : HandleInputChange(value)
    \/ HandleInputFocus
    \/ HandleInputBlur
    \/ BlurDelayElapses
    \/ BlurTimeoutFires
    \/ CancelCloseTimeoutFires
    \/ HandleClickOutside
    \/ ClickOutsideResumes
    \/ \E key \in Keys, rr \in BOOLEAN : HandleInputKeydown(key, rr)
    \/ \E index \in Indexes, rr \in BOOLEAN : HandleItemClick(index, rr)
    \/ \E index \in Indexes : HandleMouseEnter(index)
    \/ HandleMenuMouseDown
    \/ ActionsOpen
    \/ ActionsClose
    \/ \E drawn \in Renders : ParentRender(drawn)
    \/ componentWillUnmount

InitWith(configs, drawings) ==
    /\ props \in configs
    /\ state = getInitialState(props)
    /\ \E drawn \in drawings : items = drawn.items /\ itemCount = drawn.itemCount
    /\ blurTimeout = "none"
    /\ cancelCloseTimeout = "none"
    /\ timerQueue = <<>>
    /\ mounted = TRUE
    /\ ev = Event("mount", "", Undefined, 0, FALSE)
    /\ calls = <<>>
    /\ blurCovered = FALSE
    /\ blurRace = "none"
    /\ blurInSettle = FALSE

\* Spec: every step of the controller, timers included, for the default
\* configuration and its controlled and closeOnSelect = false variants
TimedProps ==
    {[defaultProps EXCEPT !.isOpen = o, !.closeOnSelect = c] :
        o \in {"undefined", "true", "false"}, c \in BOOLEAN}

Init == InitWith(TimedProps, Renders)

Spec == Init /\ [][Next]_vars

\* SpecInput: the input, item and render steps (no blur, mousedown, outside
\* click or unmount, hence no timers), for every configuration but the
\* controlled-closed ones
NextInput ==
    \/ \E value \in Texts : HandleInputChange(value)
    \/ HandleInputFocus
    \/ \E key \in Keys, rr \in BOOLEAN : HandleInputKeydown(key, rr)
    \/ \E index \in Indexes, rr \in BOOLEAN : HandleItemClick(index, rr)
    \/ \E index \in Indexes : HandleMouseEnter(index)
    \/ ActionsOpen
    \/ ActionsClose
    \/ \E drawn \in Renders : ParentRender(drawn)

InputProps == {p \in PropsSet : p.isOpen # "false"}

InitInput == InitWith(InputProps, Renders)

SpecInput == InitInput /\ [][NextInput]_vars

---------------------------------------------------------------------------
\* Properties

OutsideClickClosesAndCancelsBlur ==
    /\ ev.type = "clickOutside" =>
          /\ blurTimeout = "none"
          /\ clearTimeout(timerQueue, "blur") = timerQueue
          /\ SettlePending >= 1
    /\ ev.type = "clickOutsideResumed" =>
          /\ Called("closeMenu") /\ Called("onClose")
          /\ (mounted /\ ~isControlled) => ~state.isOpen

\* C2 witness: the notification found a pending blur timer and cleared it, the menu being open
OutsideClickClearedBlurTimer ==
    /\ ~isControlled /\ state.isOpen
    /\ ev.type = "clickOutside" /\ ev.key = "clearedBlur"

\* C3: once the controller is torn down no step calls anything on it (no
\* closeMenu, onClose or onBlur).
NoCallAfterTeardown ==
    ~mounted => calls = <<>>


\* the item handed to onSelect among the calls cs
SelectedIn(cs) == ItemOf(cs[CHOOSE i \in DOMAIN cs : cs[i].fn = "onSelect"].arg)

\* the item count navigation goes by: itemCount when the menu supplied one, else the registry's size
EffectiveCount == IF itemCount # Undefined THEN itemCount ELSE Cardinality(DOMAIN items)

DefaultIndex == IF props.defaultHighlightedIndex = Undefined THEN 0 ELSE props.defaultHighlightedIndex

\* the last step was an ArrowUp or ArrowDown keydown; ev.index is the index it started from
IsMove == ev.type = "keydown" /\ ev.key \in {"ArrowUp", "ArrowDown"}

MoveStopsAtEnds ==
    /\ (ev.key = "ArrowUp" /\ ev.index = 0) => state.highlightedIndex = 0
    /\ (ev.key = "ArrowDown" /\ ev.index = EffectiveCount - 1) =>
           state.highlightedIndex = EffectiveCount - 1

\* C4 as stated: after every ArrowUp/ArrowDown highlightedIndex lies in
\* [0, effectiveCount-1]; ArrowUp at 0 and ArrowDown at effectiveCount-1 stay put.
ClampedNavigationAsClaimed ==
    IsMove => /\ state.highlightedIndex \in 0..(EffectiveCount - 1)
              /\ MoveStopsAtEnds

\* C4 amended: after every ArrowUp/ArrowDown highlightedIndex lies in
\* [0, max(0, effectiveCount-1)] (it is 0 when there is nothing to navigate);
\* ArrowUp at 0 and ArrowDown at effectiveCount-1 stay put.
ClampedNavigation ==
    IsMove => /\ state.highlightedIndex \in 0..Max(0, EffectiveCount - 1)
              /\ MoveStopsAtEnds

\* C4 witness: ArrowDown on the last item of a full list leaves the highlight there
ArrowDownAtLastItem ==
    /\ IsMove /\ ev.key = "ArrowDown"
    /\ EffectiveCount = MaxItems /\ ev.index = MaxItems - 1
    /\ state.highlightedIndex = MaxItems - 1

\* C5 as stated: in uncontrolled mode, after a change event carrying v, isOpen
\* is true and inputValue is v, whatever the rest of the configuration.
OpenOnEditAsClaimed ==
    (ev.type = "change" /\ ~isControlled) =>
        state.isOpen /\ state.inputValue = ev.value

\* C5 amended: in uncontrolled mode, after a change event carrying v, inputValue
\* is v, and isOpen is true unless the controller is disabled.
OpenOnEdit ==
    (ev.type = "change" /\ ~isControlled) =>
        /\ state.inputValue = ev.value
        /\ ~props.disabled => state.isOpen

\* C5 witness: an enabled, uncontrolled controller took a change event with text "t"
EditOpenedMenu ==
    /\ ev.type = "change" /\ ev.value = <<"t">>
    /\ ~isControlled /\ ~props.disabled
    /\ state.isOpen /\ state.inputValue = <<"t">>

SelectsWithoutClosing == ~props.closeOnSelect /\ CalledIn(calls', "handleSelect")

\* C7 as stated: with closeOnSelect = false a selection of X leaves an open menu
\* open; the highlight is reset to the default only if X differs from the
\* previously selected item, and is unchanged when X is the previously selected item.
SelectionKeepsBrowsingAsClaimed ==
    [][SelectsWithoutClosing =>
          /\ isOpen => isOpen'
          /\ CalledIn(calls', "resetHighlightState") => SelectedIn(calls') # state.selectedItem
          /\ SelectedIn(calls') = state.selectedItem =>
                 state'.highlightedIndex = state.highlightedIndex]_vars

\* C7 amended: with closeOnSelect = false a selection of X leaves the open flag
\* as it was; the highlight is reset to the default only if X differs from the
\* previously selected item; when X is the previously selected item the
\* highlight is unchanged by a selecting key and is X's index after a click.
SelectionKeepsBrowsing ==
    [][SelectsWithoutClosing =>
          /\ isOpen' = isOpen
          /\ CalledIn(calls', "resetHighlightState") => SelectedIn(calls') # state.selectedItem
          /\ SelectedIn(calls') = state.selectedItem =>
                 state'.highlightedIndex =
                     IF ev'.type = "click" THEN ev'.index ELSE state.highlightedIndex]_vars

\* C7 witness: Enter selected an item with closeOnSelect = false, the menu is
\* open and the highlight, away from the default, was not reset
EnterSelectedMenuStaysOpen ==
    /\ ~props.closeOnSelect /\ ~isControlled /\ state.isOpen
    /\ ev.type = "keydown" /\ ev.key = "Enter" /\ Called("onSelect")
    /\ ~Called("resetHighlightState")
    /\ state.highlightedIndex # DefaultIndex
    /\ state.selectedItem = ItemOf(3)

\* C8: a click on a disabled item, and Enter or Tab while the highlighted item
\* is disabled, call no onSelect and change no state; mouseenter on a disabled
\* item leaves highlightedIndex as it was.
DisabledItemsInert ==
    [][/\ (ev'.type = "click" /\ ItemOf(ev'.item).disabled) =>
              state' = state /\ ~CalledIn(calls', "onSelect")
       /\ (/\ ev'.type = "keydown" /\ ev'.key \in {"Enter", "Tab"}
           /\ ev'.item # 0 /\ ItemOf(ev'.item).disabled) =>
              state' = state /\ ~CalledIn(calls', "onSelect")
       /\ (ev'.type = "mouseenter" /\ ItemOf(ev'.item).disabled) =>
              state'.highlightedIndex = state.highlightedIndex]_vars

\* C8 witness: Enter, enabled as a selecting key, was pressed on a highlighted disabled item
EnterOnDisabledItem ==
    /\ ev.type = "keydown" /\ ev.key = "Enter" /\ props.shouldSelectWithEnter
    /\ ev.item # 0 /\ ItemOf(ev.item).disabled
    /\ state.highlightedIndex \in DOMAIN items
    /\ Called("preventDefault") /\ ~Called("onSelect")

EscapeCloses ==
    (ev.type = "keydown" /\ ev.key = "Escape" /\ ~isControlled) =>
        ~state.isOpen /\ Called("onClose") /\ ~Called("onSelect")

\* C10 witness: Escape on a highlighted, selectable item with closeOnSelect = false and
\* both selecting keys enabled
EscapeOnHighlightedItem ==
    /\ ev.type = "keydown" /\ ev.key = "Escape" /\ ~isControlled
    /\ ~props.closeOnSelect /\ props.shouldSelectWithEnter /\ props.shouldSelectWithTab
    /\ ev.item # 0 /\ ~ItemOf(ev.item).disabled
    /\ ~state.isOpen /\ Called("onClose")

\* how many times the last step called fn
TimesCalled(fn) == Cardinality({i \in DOMAIN calls : calls[i].fn = fn})

\* C11: a keydown invokes onSelect exactly when the key is Enter with
\* shouldSelectWithEnter, or Tab with shouldSelectWithTab, and the registry
\* holds a non-disabled item at the highlighted index; onSelect is then invoked
\* once, with the item registered at that index.
KeydownSelectsHighlightedItem ==
    ev.type = "keydown" =>
        LET selecting == \/ ev.key = "Enter" /\ props.shouldSelectWithEnter
                         \/ ev.key = "Tab" /\ props.shouldSelectWithTab
            registered == ev.index \in DOMAIN items
        IN  /\ Called("onSelect") <=>
                   (selecting /\ registered /\ ~items[ev.index].disabled)
            /\ Called("onSelect") =>
                   /\ TimesCalled("onSelect") = 1
                   /\ SelectedIn(calls) = items[ev.index]

\* C11 witness: default configuration, the whole list registered, Enter pressed
\* with the highlight on the last index: onSelect got the item registered there
EnterSelectsLastItem ==
    /\ props = defaultProps
    /\ DOMAIN items = Indexes
    /\ ev.type = "keydown" /\ ev.key = "Enter" /\ ev.index = MaxItems - 1
    /\ TimesCalled("onSelect") = 1
    /\ SelectedIn(calls) = items[MaxItems - 1]
    /\ state.selectedItem = items[MaxItems - 1]
    /\ state.inputValue = itemToString(items[MaxItems - 1]) /\ ~state.isOpen

\* C12: whenever a selection completes, highlightedIndex is reset to the
\* default index, except when closeOnSelect is false and the selected item
\* differs from the previous selection: then highlightedIndex is preserved (it
\* is what the selecting handler found, or the clicked index after a click).
SelectionResetsHighlight ==
    [][CalledIn(calls', "handleSelect") =>
          IF ~props.closeOnSelect /\ SelectedIn(calls') # state.selectedItem
          THEN state'.highlightedIndex =
                   IF ev'.type = "click" THEN ev'.index ELSE state.highlightedIndex
          ELSE state'.highlightedIndex = DefaultIndex]_vars

\* C13: whenever inputValue changes, through any path (a change event, a close
\* with resetInputOnClose, a closing selection) and in any mode (uncontrolled,
\* controlled, disabled), highlightedIndex is reset to the default index.
InputChangeResetsHighlight ==
    [][state'.inputValue # state.inputValue =>
          state'.highlightedIndex = DefaultIndex]_vars

\* C14 as stated: when a menu mousedown and an input blur come together, the
\* blur first or the mousedown first, the blur's timer never runs its close,
\* in whatever order the two timers fire.
MouseDownSuppressesBlurCloseAsClaimed ==
    ev.type = "blurTimeout" =>
        blurRace \notin {"blurThenMousedown", "blurThenMousedownLate", "mousedownThenBlur"}

\* C14 amended: the blur's timer never runs its close when the later of the
\* two events came while the earlier one's timer was still pending: the
\* mousedown before the blur's 200 ms expired, or the blur before the
\* mousedown's zero-delay timer fired.
MouseDownSuppressesBlurClose ==
    ev.type = "blurTimeout" =>
        blurRace \notin {"blurThenMousedown", "mousedownThenBlur"}

\* C14 witness: the mousedown came first, the blur while the mousedown's timer
\* was pending, and that timer has cleared the blur timer; the menu is open
MouseDownFirstCancelledBlurClose ==
    /\ ~isControlled /\ state.isOpen
    /\ blurRace = "mousedownThenBlur"
    /\ ev.type = "cancelCloseTimeout" /\ ev.key = "clearedBlur"
    /\ blurTimeout = "none"

\* C19: one outside click leads to one closeMenu: the close of a blur that came
\* with it, before the notification or during its settle delay, never runs.
\* (A blur before the notification has its timer cleared by it; this is the
\* blur during the settle delay.)
OutsideClickClosesOnce ==
    ev.type = "blurTimeout" => ~blurInSettle

SelectingKey ==
    \/ ev.key = "Enter" /\ props.shouldSelectWithEnter
    \/ ev.key = "Tab" /\ props.shouldSelectWithTab

\* C16 as stated: a keydown calls preventDefault exactly for ArrowUp and
\* ArrowDown, and for Enter/Tab when onSelect is invoked; an Enter/Tab that
\* selects nothing and an Escape never call it.
PreventDefaultOnConsumedKeysAsClaimed ==
    ev.type = "keydown" =>
        (Called("preventDefault") <=>
            \/ ev.key \in {"ArrowUp", "ArrowDown"}
            \/ ev.key \in {"Enter", "Tab"} /\ Called("onSelect"))

\* C16 amended: a keydown calls preventDefault exactly for ArrowUp and
\* ArrowDown, and for Enter/Tab when the key's select flag is on and the
\* registry holds an item at highlightedIndex, disabled or not (so whenever a
\* selection occurs, and also on a disabled highlighted item); an Enter/Tab
\* with its flag off or without a registered highlighted item, an Escape and
\* any other key never call it.
PreventDefaultOnConsumedKeys ==
    ev.type = "keydown" =>
        /\ Called("preventDefault") <=>
               \/ ev.key \in {"ArrowUp", "ArrowDown"}
               \/ SelectingKey /\ ev.index \in DOMAIN items
        /\ Called("onSelect") => Called("preventDefault")

\* C16 witness: Tab, enabled for selecting, selected the highlighted item and
\* called preventDefault
TabSelectsAndPreventsDefault ==
    /\ ev.type = "keydown" /\ ev.key = "Tab" /\ props.shouldSelectWithTab
    /\ ~props.shouldSelectWithEnter
    /\ Called("onSelect") /\ TimesCalled("preventDefault") = 1

\* among the calls cs of a step, fn was called once and nothing of the handler
\* follows it (when the parent re-rendered, rr, the hook's reset of the update does)
CalledOnceLast(cs, fn, rr) ==
    \E i \in DOMAIN cs :
        /\ cs[i].fn = fn
        /\ \A j \in DOMAIN cs : j # i => cs[j].fn # fn
        /\ \A j \in DOMAIN cs : j > i => rr /\ cs[j].fn = "resetHighlightState"

\* a change, focus or keydown event calls the caller's handler once, after the
\* controller's own handling
HandlerFollowsControllerLogic ==
    /\ ev'.type = "change" => CalledOnceLast(calls', "onChange", FALSE)
    /\ ev'.type = "focus" => CalledOnceLast(calls', "onFocus", FALSE)
    /\ ev'.type = "keydown" => CalledOnceLast(calls', "onKeyDown", ev'.rr)

\* the timer of a blur (which is to call the caller's onBlur) ends, on a
\* mounted controller, only in a step that calls onBlur, once and after closeMenu
BlurTimerEndsInOnBlur ==
    (blurTimeout # "none" /\ blurTimeout' = "none" /\ mounted') =>
        CalledOnceLast(calls', "onBlur", FALSE)

\* C17: each input event (change, keydown, focus, blur) has the caller's
\* handler invoked once, after the controller's own handling; for a blur the
\* call comes later, and it comes also when the blur-close is cancelled by a
\* menu mousedown, an item click or an outside click.
CallerHandlersInvokedOnce ==
    [][HandlerFollowsControllerLogic /\ BlurTimerEndsInOnBlur]_vars

\* a step that does nothing but call closeMenu
IsCloseStep(e) ==
    \/ e.type = "actions.close"
    \/ e.type = "keydown" /\ e.key = "Escape"

SelectedItemOnlyBySelect ==
    /\ [](state.selectedItem = NoItem \/ ~state.selectedItem.disabled)
    /\ [][state'.selectedItem # state.selectedItem =>
             /\ CalledIn(calls', "handleSelect") /\ CalledIn(calls', "onSelect")
             /\ SelectedIn(calls') = state'.selectedItem
             /\ ev'.type \in {"click", "keydown"}
             /\ ev'.type = "keydown" => ev'.key \in {"Enter", "Tab"}
             /\ state'.selectedItem = items[ev'.index]]_vars

\* C20 witness: an item was selected and the menu then closed by the blur
\* timer: the selection is still the item
SelectionSurvivesBlurClose ==
    /\ ~isControlled /\ ~props.closeOnSelect
    /\ ev.type = "blurTimeout" /\ Called("closeMenu")
    /\ ~state.isOpen /\ state.selectedItem = ItemOf(1)

====
